---- MODULE Spec2Model ----
(***************************************************************************)
(* Belgian Housing AI: the batch of backend/statbel_integration.py (table  *)
(* creation, municipality load, prediction calculator) and the read        *)
(* endpoints of backend/flask_api.py, over one SQLite store.               *)
(*                                                                         *)
(* Numbers.  The calculator works in IEEE doubles.  For the integer        *)
(* populations and densities the loader stores, every score is an exact    *)
(* multiple of 1/10000, so scores are held here as integers in that unit   *)
(* (ScoreUnit) and a stored percentage is held in tenths of a percent      *)
(* (34.8 is 348).  area_km2 is held in hundredths of a km2.                *)
(* A nullable SQL value is a set: {} is NULL, {v} is the value v.          *)
(* Strings are written in ASCII (Liege, Wallonie).                         *)
(***************************************************************************)
EXTENDS Integers, Sequences, FiniteSets, TLC

\* ------------------------------------------------------------- bounds
\* Batch operations (setup, import, calculate) started in one behaviour.
MaxOps == 4
\* How many of the seeded codes the requests ask for (plus one unknown code).
MaxQueried == 3
\* Calculator inputs of SpecCalc: densities 0..MaxDensity, a second density
\* 1, 10, .., 10^(MaxGap-1) above the first, populations 0, PopStep, ..,
\* MaxPopSteps*PopStep.
MaxDensity == 5100
MaxGap == 3
MaxPopSteps == 4
PopStep == 26525

\* ------------------------------------------------------------- helpers
Min(a, b) == IF a <= b THEN a ELSE b

RECURSIVE SumFn(_, _)
SumFn(f, S) ==
    IF S = {} THEN 0
    ELSE LET x == CHOOSE y \in S : TRUE IN f[x] + SumFn(f, S \ {x})

\* The rows of S in rowid order (SQLite's table scan order).
RECURSIVE ByRowid(_)
ByRowid(S) ==
    IF S = {} THEN <<>>
    ELSE LET r == CHOOSE x \in S : \A y \in S : x.id <= y.id
         IN <<r>> \o ByRowid(S \ {r})

\* ------------------------------------------------------------- seed data
\* statbel_integration.py:55-81, the hard-coded list of import_municipalities.
municipalities ==
    << [nis_code |-> "11002", name_nl |-> "Antwerpen", name_fr |-> "Anvers", province |-> "Antwerpen", region |-> "Vlaanderen", population |-> 530504, area_km2 |-> 20451, density |-> 2594],
       [nis_code |-> "44021", name_nl |-> "Gent", name_fr |-> "Gand", province |-> "Oost-Vlaanderen", region |-> "Vlaanderen", population |-> 264689, area_km2 |-> 15618, density |-> 1695],
       [nis_code |-> "24062", name_nl |-> "Leuven", name_fr |-> "Louvain", province |-> "Vlaams-Brabant", region |-> "Vlaanderen", population |-> 102275, area_km2 |-> 5663, density |-> 1806],
       [nis_code |-> "31003", name_nl |-> "Brugge", name_fr |-> "Bruges", province |-> "West-Vlaanderen", region |-> "Vlaanderen", population |-> 118656, area_km2 |-> 13840, density |-> 857],
       [nis_code |-> "71011", name_nl |-> "Hasselt", name_fr |-> "Hasselt", province |-> "Limburg", region |-> "Vlaanderen", population |-> 79421, area_km2 |-> 10224, density |-> 777],
       [nis_code |-> "12025", name_nl |-> "Mechelen", name_fr |-> "Malines", province |-> "Antwerpen", region |-> "Vlaanderen", population |-> 86921, area_km2 |-> 6519, density |-> 1333],
       [nis_code |-> "32003", name_nl |-> "Kortrijk", name_fr |-> "Courtrai", province |-> "West-Vlaanderen", region |-> "Vlaanderen", population |-> 76265, area_km2 |-> 8003, density |-> 953],
       [nis_code |-> "41002", name_nl |-> "Aalst", name_fr |-> "Alost", province |-> "Oost-Vlaanderen", region |-> "Vlaanderen", population |-> 87763, area_km2 |-> 7808, density |-> 1124],
       [nis_code |-> "21004", name_nl |-> "Brussel", name_fr |-> "Bruxelles", province |-> "Brussels", region |-> "Brussels", population |-> 194291, area_km2 |-> 3261, density |-> 5957],
       [nis_code |-> "21001", name_nl |-> "Anderlecht", name_fr |-> "Anderlecht", province |-> "Brussels", region |-> "Brussels", population |-> 122547, area_km2 |-> 1774, density |-> 6906],
       [nis_code |-> "21015", name_nl |-> "Schaarbeek", name_fr |-> "Schaerbeek", province |-> "Brussels", region |-> "Brussels", population |-> 134323, area_km2 |-> 814, density |-> 16502],
       [nis_code |-> "21009", name_nl |-> "Elsene", name_fr |-> "Ixelles", province |-> "Brussels", region |-> "Brussels", population |-> 88145, area_km2 |-> 634, density |-> 13902],
       [nis_code |-> "21016", name_nl |-> "Ukkel", name_fr |-> "Uccle", province |-> "Brussels", region |-> "Brussels", population |-> 84847, area_km2 |-> 2287, density |-> 3710],
       [nis_code |-> "62003", name_nl |-> "Liege", name_fr |-> "Luik", province |-> "Liege", region |-> "Wallonie", population |-> 197355, area_km2 |-> 6939, density |-> 2844],
       [nis_code |-> "91013", name_nl |-> "Charleroi", name_fr |-> "Charleroi", province |-> "Hainaut", region |-> "Wallonie", population |-> 202598, area_km2 |-> 10208, density |-> 1985],
       [nis_code |-> "92003", name_nl |-> "Namur", name_fr |-> "Namen", province |-> "Namur", region |-> "Wallonie", population |-> 111257, area_km2 |-> 17569, density |-> 633],
       [nis_code |-> "91034", name_nl |-> "Mons", name_fr |-> "Bergen", province |-> "Hainaut", region |-> "Wallonie", population |-> 95748, area_km2 |-> 14652, density |-> 653],
       [nis_code |-> "91054", name_nl |-> "Tournai", name_fr |-> "Doornik", province |-> "Hainaut", region |-> "Wallonie", population |-> 69660, area_km2 |-> 21375, density |-> 326],
       [nis_code |-> "62096", name_nl |-> "Seraing", name_fr |-> "Seraing", province |-> "Liege", region |-> "Wallonie", population |-> 64678, area_km2 |-> 3534, density |-> 1830],
       [nis_code |-> "62063", name_nl |-> "Verviers", name_fr |-> "Verviers", province |-> "Liege", region |-> "Wallonie", population |-> 56440, area_km2 |-> 4803, density |-> 1175] >>

SeedCodes == {municipalities[k].nis_code : k \in 1..Len(municipalities)}

\* A code no municipality carries.
UnknownCode == "99999"

\* The codes the modelled requests ask for.
QueryCodes ==
    {municipalities[k].nis_code : k \in 1..Min(MaxQueried, Len(municipalities))}
        \cup {UnknownCode}

\* ------------------------------------------------------------- state
VARIABLES
    db,        \* the committed store: what a fresh connection reads
    tx,        \* the store as the batch's open connection sees it
    pc,        \* the batch: "idle", "import", "calc"
    i,         \* the batch loop's next index
    frame,     \* calculate_predictions' DataFrame (read once, before the loop)
    clock,     \* datetime.now(), a tick per call
    ops,       \* batch operations started
    req,       \* the request in flight: what its earlier queries returned
    resp,      \* the response of the request just served
    calcIn,    \* SpecCalc: the calculator's inputs
    calcOut    \* SpecCalc: the calculator's outputs for them

vars == <<db, tx, pc, i, frame, clock, ops, req, resp, calcIn, calcOut>>

NoResp == [endpoint |-> "none"]
NoReq == [handler |-> "none"]
NoCalc == [done |-> FALSE]

\* setup_database on a fresh file: both tables exist and are empty;
\* seq_* are the AUTOINCREMENT counters of sqlite_sequence.
EmptyStore == [municipalities |-> {}, apartment_predictions |-> {},
               seq_municipalities |-> 0, seq_predictions |-> 0]

\* ------------------------------------------------------------- calculator
\* statbel_integration.py:109-128.  Scores in units of 1/ScoreUnit.
ScoreUnit == 10000

\* line 109: urbanization = min(100, density / 50), held in fiftieths.
urbanization(density) == Min(100 * 50, density)

\* line 110: size_factor = min(100, population / 1000), held in thousandths.
size_factor_unclamped(population) == population
size_factor(population) == Min(100 * 1000, population)

\* line 112: studio_score = 20 + urbanization * 0.3 + size_factor * 0.1
\* (0.3 of a fiftieth is 60 units, 0.1 of a thousandth is 1 unit).
studio_score_falling(u, s) ==
    20 * ScoreUnit - u * ((3 * ScoreUnit) \div 500) + s * (ScoreUnit \div 10000)
studio_score(u, s) ==
    20 * ScoreUnit + u * ((3 * ScoreUnit) \div 500) + s * (ScoreUnit \div 10000)

\* line 113: one_bed_score = 40 + urbanization * 0.2
one_bed_score_base20(u) == 20 * ScoreUnit + u * ((2 * ScoreUnit) \div 500)
one_bed_score(u) == 40 * ScoreUnit + u * ((2 * ScoreUnit) \div 500)

\* line 114: two_bed_score = 40 - urbanization * 0.1
two_bed_score(u) == 40 * ScoreUnit - u * (ScoreUnit \div 500)

\* line 116: total = studio_score + one_bed_score + two_bed_score
total(population, density) ==
    LET u == urbanization(density)
        s == size_factor(population)
    IN studio_score(u, s) + one_bed_score(u) + two_bed_score(u)

\* lines 126-128: round((score / total) * 100, 1), in tenths of a percent.
\* Python rounds the double correctly to the nearest tenth.  The double is within
\* a few ulps of the exact quotient, which for these inputs is either at least
\* 1/(2*total) tenths away from a half-way point or exactly on one; exactly on
\* one (e.g. population 76720, density 41: 25.85) the double's own rounding
\* error decides, so both neighbours are possible outcomes here.
round1_truncating(score, tot) == {(1000 * score) \div tot}
round1(score, tot) ==
    LET q == (1000 * score) \div tot
        r == 2 * ((1000 * score) % tot)
    IN IF r < tot THEN {q}
       ELSE IF r > tot THEN {q + 1}
       ELSE {q, q + 1}

\* The values calculate_predictions binds for one municipality (lines 125-131,
\* without the key and the timestamp).
Predictions(population, density) ==
    LET u == urbanization(density)
        s == size_factor(population)
        t == total(population, density)
    IN { [studio_demand_pct |-> a, one_bed_demand_pct |-> b,
          two_bed_demand_pct |-> c, confidence_score |-> 85,
          market_trend |-> "stable"] :
            a \in round1(studio_score(u, s), t),
            b \in round1(one_bed_score(u), t),
            c \in round1(two_bed_score(u), t) }

\* ------------------------------------------------------------- store
\* INSERT OR REPLACE INTO municipalities (lines 87-91) under the schema of
\* lines 22-34: id is AUTOINCREMENT (not supplied, so a new one), nis_code is
\* UNIQUE; REPLACE deletes the rows that conflict and inserts the new row.
insert_or_ignore_municipality(store, mun, now) ==
    LET id == store.seq_municipalities + 1
        row == [id |-> id, nis_code |-> mun.nis_code, name_nl |-> mun.name_nl,
                name_fr |-> mun.name_fr, province |-> mun.province,
                region |-> mun.region, population |-> mun.population,
                area_km2 |-> mun.area_km2, density |-> mun.density,
                last_updated |-> now]
        conflicts == {r \in store.municipalities :
                         r.id = row.id \/ r.nis_code = row.nis_code}
    IN IF conflicts # {} THEN store
       ELSE [store EXCEPT !.municipalities = @ \cup {row},
                          !.seq_municipalities = id]
insert_or_replace_municipality(store, mun, now) ==
    LET id == store.seq_municipalities + 1
        row == [id |-> id, nis_code |-> mun.nis_code, name_nl |-> mun.name_nl,
                name_fr |-> mun.name_fr, province |-> mun.province,
                region |-> mun.region, population |-> mun.population,
                area_km2 |-> mun.area_km2, density |-> mun.density,
                last_updated |-> now]
        conflicts == {r \in store.municipalities :
                         r.id = row.id \/ r.nis_code = row.nis_code}
    IN [store EXCEPT !.municipalities = (@ \ conflicts) \cup {row},
                     !.seq_municipalities = id]

\* INSERT OR REPLACE INTO apartment_predictions (lines 119-132) under the
\* schema of lines 36-48: id is the only key (AUTOINCREMENT, not supplied);
\* nis_code carries a FOREIGN KEY declaration and no UNIQUE constraint, so no
\* existing row ever conflicts.
insert_or_replace_prediction(store, nis_code, p, now) ==
    LET id == store.seq_predictions + 1
        row == [id |-> id, nis_code |-> nis_code,
                studio_demand_pct |-> p.studio_demand_pct,
                one_bed_demand_pct |-> p.one_bed_demand_pct,
                two_bed_demand_pct |-> p.two_bed_demand_pct,
                confidence_score |-> p.confidence_score,
                market_trend |-> p.market_trend,
                prediction_date |-> now]
        conflicts == {r \in store.apartment_predictions : r.id = row.id}
    IN [store EXCEPT !.apartment_predictions = (@ \ conflicts) \cup {row},
                     !.seq_predictions = id]

\* lines 102-105: SELECT nis_code, population, density FROM municipalities.
read_frame_from_list(store) ==
    [k \in 1..Len(municipalities) |->
        [nis_code |-> municipalities[k].nis_code,
         population |-> municipalities[k].population,
         density |-> municipalities[k].density]]
read_frame(store) ==
    LET rows == ByRowid(store.municipalities)
    IN [k \in 1..Len(rows) |->
          [nis_code |-> rows[k].nis_code, population |-> rows[k].population,
           density |-> rows[k].density]]

\* ------------------------------------------------------------- batch
\* setup_database (lines 16-51): CREATE TABLE IF NOT EXISTS on tables that
\* exist changes nothing.
setup_database ==
    /\ pc = "idle" /\ ops < MaxOps
    /\ ops' = ops + 1
    /\ resp' = NoResp
    /\ UNCHANGED <<db, tx, pc, i, frame, clock, req, calcIn, calcOut>>

\* import_municipalities (lines 53-96): connect, one INSERT OR REPLACE per
\* list entry inside the connection's implicit transaction, then commit.
import_begin ==
    /\ pc = "idle" /\ ops < MaxOps
    /\ ops' = ops + 1
    /\ pc' = "import" /\ i' = 1 /\ tx' = db
    /\ resp' = NoResp
    /\ UNCHANGED <<db, frame, clock, req, calcIn, calcOut>>

import_row ==
    /\ pc = "import" /\ i <= Len(municipalities)
    /\ tx' = insert_or_replace_municipality(tx, municipalities[i], clock)
    /\ clock' = clock + 1
    /\ i' = i + 1
    /\ resp' = NoResp
    /\ UNCHANGED <<db, pc, frame, ops, req, calcIn, calcOut>>

import_commit ==
    /\ pc = "import" /\ i > Len(municipalities)
    /\ db' = tx
    /\ pc' = "idle"
    /\ resp' = NoResp
    /\ UNCHANGED <<tx, i, frame, clock, ops, req, calcIn, calcOut>>

\* calculate_predictions (lines 98-137): connect, read the frame, one INSERT
\* OR REPLACE per frame row inside the implicit transaction, then commit.
calculate_read ==
    /\ pc = "idle" /\ ops < MaxOps
    /\ ops' = ops + 1
    /\ frame' = read_frame(db)
    /\ pc' = "calc" /\ i' = 1 /\ tx' = db
    /\ resp' = NoResp
    /\ UNCHANGED <<db, clock, req, calcIn, calcOut>>

calculate_row_autocommit ==
    /\ pc = "calc" /\ i <= Len(frame)
    /\ \E p \in Predictions(frame[i].population, frame[i].density) :
          tx' = insert_or_replace_prediction(tx, frame[i].nis_code, p, clock)
    /\ db' = tx'
    /\ clock' = clock + 1
    /\ i' = i + 1
    /\ resp' = NoResp
    /\ UNCHANGED <<pc, frame, ops, req, calcIn, calcOut>>
calculate_row ==
    /\ pc = "calc" /\ i <= Len(frame)
    /\ \E p \in Predictions(frame[i].population, frame[i].density) :
          tx' = insert_or_replace_prediction(tx, frame[i].nis_code, p, clock)
    /\ clock' = clock + 1
    /\ i' = i + 1
    /\ resp' = NoResp
    /\ UNCHANGED <<db, pc, frame, ops, req, calcIn, calcOut>>

calculate_commit ==
    /\ pc = "calc" /\ i > Len(frame)
    /\ db' = tx
    /\ pc' = "idle"
    /\ resp' = NoResp
    /\ UNCHANGED <<tx, i, frame, clock, ops, req, calcIn, calcOut>>

\* ------------------------------------------------------------- query service
\* flask_api.py:23-29, query_db(..., one=True): the first row or None.
first_row(rows) == IF rows = {} THEN {} ELSE {ByRowid(rows)[1]}

\* municipalities m LEFT JOIN apartment_predictions p ON m.nis_code = p.nis_code
\* (flask_api.py:146-147 and 206-207): one joined row per matching prediction,
\* one row with p NULL for a municipality that has none.
inner_join(store) ==
    UNION { { [m |-> mun, p |-> {q}] :
                q \in {r \in store.apartment_predictions : r.nis_code = mun.nis_code} } :
            mun \in store.municipalities }
left_join(store) ==
    UNION { LET preds == {r \in store.apartment_predictions : r.nis_code = mun.nis_code}
            IN IF preds = {} THEN { [m |-> mun, p |-> {}] }
               ELSE { [m |-> mun, p |-> {q}] : q \in preds } :
            mun \in store.municipalities }

\* A column of the joined row's prediction side: NULL when p is NULL.
StudioOf(j) == {q.studio_demand_pct : q \in j.p}
OneBedOf(j) == {q.one_bed_demand_pct : q \in j.p}
TwoBedOf(j) == {q.two_bed_demand_pct : q \in j.p}

\* flask_api.py:112-116, get_municipality's first query.
municipality_query(store, nis_code) ==
    first_row({m \in store.municipalities : m.nis_code = nis_code})

\* flask_api.py:124-128, get_municipality's second query.
municipality_prediction_query(store, nis_code) ==
    first_row({q \in store.apartment_predictions : q.nis_code = nis_code})

\* flask_api.py:118-122 and 130-136, get_municipality's two responses, from
\* the rows mun and pred its queries returned.
municipality_response(nis_code, mun, pred) ==
    IF mun = {}
    THEN [endpoint |-> "municipality", code |-> nis_code, status |-> 404,
          success |-> FALSE, error |-> "not found"]
    ELSE [endpoint |-> "municipality", code |-> nis_code, status |-> 200,
          success |-> TRUE,
          data |-> [municipality |-> mun, prediction |-> pred]]

\* flask_api.py:138-162, get_prediction: the first joined row (the municipality's
\* row scanned with its predictions in rowid order).
prediction_response(store, nis_code) ==
    LET rows == {j \in left_join(store) : j.m.nis_code = nis_code}
        result == IF rows = {} THEN {}
                  ELSE {CHOOSE j \in rows :
                          \A k \in rows : \A a \in j.p : \A b \in k.p : a.id <= b.id}
    IN IF result = {}
       THEN [endpoint |-> "prediction", code |-> nis_code, status |-> 404,
             success |-> FALSE, error |-> "no data"]
       ELSE LET j == CHOOSE x \in result : TRUE
            IN [endpoint |-> "prediction", code |-> nis_code, status |-> 200,
                success |-> TRUE,
                data |-> [nis_code |-> j.m.nis_code, name_nl |-> j.m.name_nl,
                          region |-> j.m.region, population |-> j.m.population,
                          density |-> j.m.density,
                          studio_demand_pct |-> StudioOf(j),
                          one_bed_demand_pct |-> OneBedOf(j),
                          two_bed_demand_pct |-> TwoBedOf(j),
                          confidence_score |-> {q.confidence_score : q \in j.p},
                          market_trend |-> {q.market_trend : q \in j.p}]]

\* SQL AVG over the non-NULL values of a column of the rows J, as the exact
\* quotient sum/n; NULL when no row has a value.
Avg(J, col) ==
    LET some == {j \in J : col[j] # {}}
    IN IF some = {} THEN {}
       ELSE { [sum |-> SumFn([j \in some |-> CHOOSE v \in col[j] : TRUE], some),
               n |-> Cardinality(some)] }

\* flask_api.py:197-211, the per-region aggregate over the joined rows.
region_stats(store) ==
    LET J == left_join(store)
    IN { LET G == {j \in J : j.m.region = reg}
         IN [region |-> reg,
             count |-> Cardinality(G),
             total_pop |-> SumFn([j \in G |-> j.m.population], G),
             avg_density |-> Avg(G, [j \in G |-> {j.m.density}]),
             avg_studio |-> Avg(G, [j \in G |-> StudioOf(j)]),
             avg_one_bed |-> Avg(G, [j \in G |-> OneBedOf(j)]),
             avg_two_bed |-> Avg(G, [j \in G |-> TwoBedOf(j)])] :
         reg \in {m.region : m \in store.municipalities} }

\* flask_api.py:214-221: ORDER BY population DESC LIMIT n.
RECURSIVE top_cities(_, _)
top_cities(S, n) ==
    IF n = 0 \/ S = {} THEN <<>>
    ELSE LET c == CHOOSE x \in S : \A y \in S :
                     \/ x.population > y.population
                     \/ (x.population = y.population /\ x.id <= y.id)
         IN << [nis_code |-> c.nis_code, name_nl |-> c.name_nl, region |-> c.region,
                population |-> c.population, density |-> c.density] >>
            \o top_cities(S \ {c}, n - 1)

\* flask_api.py:224-230, the global totals (SUM over no rows is NULL).
general_stats(store) ==
    LET M == store.municipalities
    IN [total_municipalities |-> Cardinality(M),
        total_population |->
            IF M = {} THEN {} ELSE {SumFn([m \in M |-> m.population], M)},
        avg_density |-> Avg(M, [m \in M |-> {m.density}])]

\* flask_api.py:232-239, get_stats' response, from what its three queries
\* returned.
stats_response(regions, top, general) ==
    [endpoint |-> "stats", status |-> 200, success |-> TRUE,
     data |-> [general |-> general,
               by_region |-> regions,
               top_10_cities |-> top]]

\* Each query_db call opens its own connection, reads the committed store and
\* closes it (flask_api.py:17-29).  A handler with several queries is one step
\* per query: the batch may commit between two of them.  One request is in
\* flight at a time (requests share no state).

\* get_municipality up to its first return: the municipalities query, and the
\* 404 when it finds no row (flask_api.py:110-122).
get_municipality_query ==
    /\ req.handler = "none"
    /\ \E nis_code \in QueryCodes :
          LET mun == municipality_query(db, nis_code)
          IN IF mun = {}
             THEN /\ resp' = municipality_response(nis_code, mun, {})
                  /\ req' = NoReq
             ELSE /\ resp' = NoResp
                  /\ req' = [handler |-> "municipality", code |-> nis_code,
                             mun |-> mun]
    /\ UNCHANGED <<db, tx, pc, i, frame, clock, ops, calcIn, calcOut>>

\* get_municipality from its second query to the 200 (flask_api.py:124-136).
get_municipality_answer ==
    /\ req.handler = "municipality"
    /\ resp' = municipality_response(req.code, req.mun,
                  municipality_prediction_query(db, req.code))
    /\ req' = NoReq
    /\ UNCHANGED <<db, tx, pc, i, frame, clock, ops, calcIn, calcOut>>

\* get_prediction: one query (flask_api.py:138-162).
get_prediction ==
    /\ req.handler = "none"
    /\ \E nis_code \in QueryCodes : resp' = prediction_response(db, nis_code)
    /\ UNCHANGED <<db, tx, pc, i, frame, clock, ops, req, calcIn, calcOut>>

\* get_stats, first query: the per-region aggregate (flask_api.py:197-211).
get_stats_regions ==
    /\ req.handler = "none"
    /\ req' = [handler |-> "stats_regions", regions |-> region_stats(db)]
    /\ resp' = NoResp
    /\ UNCHANGED <<db, tx, pc, i, frame, clock, ops, calcIn, calcOut>>

\* get_stats, second query: the top cities (flask_api.py:214-221).
get_stats_top ==
    /\ req.handler = "stats_regions"
    /\ req' = [handler |-> "stats_top", regions |-> req.regions,
               top |-> top_cities(db.municipalities, 10)]
    /\ resp' = NoResp
    /\ UNCHANGED <<db, tx, pc, i, frame, clock, ops, calcIn, calcOut>>

\* get_stats, third query and the response (flask_api.py:224-239).
get_stats_general ==
    /\ req.handler = "stats_top"
    /\ resp' = stats_response(req.regions, req.top, general_stats(db))
    /\ req' = NoReq
    /\ UNCHANGED <<db, tx, pc, i, frame, clock, ops, calcIn, calcOut>>

\* ------------------------------------------------------------- specification
NoInput == [population |-> 0, density |-> 0, density2 |-> 0]

\* StatbelIntegration() on a fresh file has run setup_database.
Init ==
    /\ db = EmptyStore /\ tx = EmptyStore
    /\ pc = "idle" /\ i = 1 /\ frame = <<>>
    /\ clock = 0 /\ ops = 0
    /\ req = NoReq /\ resp = NoResp
    /\ calcIn = NoInput /\ calcOut = NoCalc

Next ==
    \/ setup_database
    \/ import_begin \/ import_row \/ import_commit
    \/ calculate_read \/ calculate_row \/ calculate_commit
    \/ get_municipality_query \/ get_municipality_answer
    \/ get_prediction
    \/ get_stats_regions \/ get_stats_top \/ get_stats_general

Spec == Init /\ [][Next]_vars

\* The calculator alone, over bounded inputs: a population, a density and a
\* second, larger density.
CalcInputs ==
    { [population |-> k * PopStep, density |-> d, density2 |-> d + 10^(g - 1)] :
        k \in 0..MaxPopSteps, d \in 0..MaxDensity, g \in 1..MaxGap }

InitCalc ==
    /\ db = EmptyStore /\ tx = EmptyStore
    /\ pc = "idle" /\ i = 1 /\ frame = <<>>
    /\ clock = 0 /\ ops = 0
    /\ req = NoReq /\ resp = NoResp
    /\ calcIn \in CalcInputs /\ calcOut = NoCalc

predict ==
    /\ ~calcOut.done
    /\ \E a \in Predictions(calcIn.population, calcIn.density),
          b \in Predictions(calcIn.population, calcIn.density2) :
          calcOut' = [done |-> TRUE, at |-> a, at2 |-> b,
                      total |-> total(calcIn.population, calcIn.density)]
    /\ UNCHANGED <<db, tx, pc, i, frame, clock, ops, req, resp, calcIn>>

NextCalc == predict

SpecCalc == InitCalc /\ [][NextCalc]_vars

\* ------------------------------------------------------------- claims
Codes(rows) == {r.nis_code : r \in rows}

\* C1: apartment_predictions holds at most one row per municipal code after any
\* sequence of batch runs (re-running calculate_predictions overwrites, never
\* appends).  The schema gives nis_code no UNIQUE constraint, so the second run
\* appends: violated.
C1_OnePredictionPerMunicipality ==
    \A q, r \in db.apartment_predictions : q.nis_code = r.nis_code => q = r

\* C2: in every store state (committed, or inside the batch's transaction)
\* every prediction row's nis_code is the nis_code of a municipalities row.
C2_NoOrphanPrediction ==
    /\ Codes(db.apartment_predictions) \subseteq Codes(db.municipalities)
    /\ Codes(tx.apartment_predictions) \subseteq Codes(tx.municipalities)

\* C2 witness: predictions have been committed.
C2_Witness == db.apartment_predictions # {}

\* C3: import_municipalities upserts by nis_code.  The table never holds two
\* rows of one code, and when an import commits the table holds exactly the
\* listed codes, one row each, every row carrying the listed attribute values
\* and a timestamp taken in this run (the row was replaced, not kept or merged).
C3_ImportUpserts ==
    /\ [](\A st \in {db, tx} : \A a, b \in st.municipalities :
            a.nis_code = b.nis_code => a = b)
    /\ [][(pc = "import" /\ pc' = "idle") =>
            /\ Codes(db'.municipalities) = SeedCodes
            /\ Cardinality(db'.municipalities) = Len(municipalities)
            /\ \A k \in 1..Len(municipalities) :
                 \E m \in db'.municipalities :
                    /\ m.nis_code = municipalities[k].nis_code
                    /\ m.name_nl = municipalities[k].name_nl
                    /\ m.name_fr = municipalities[k].name_fr
                    /\ m.province = municipalities[k].province
                    /\ m.region = municipalities[k].region
                    /\ m.population = municipalities[k].population
                    /\ m.area_km2 = municipalities[k].area_km2
                    /\ m.density = municipalities[k].density
                    /\ m.last_updated >= clock - Len(municipalities)]_vars

\* C3 witness: a second import has committed over a loaded table (every row
\* carries an id above the first load's).
C3_Witness ==
    /\ pc = "idle"
    /\ db.municipalities # {}
    /\ \A m \in db.municipalities : m.id > Len(municipalities)

PctSum(p) == p.studio_demand_pct + p.one_bed_demand_pct + p.two_bed_demand_pct

\* C4: the three stored percentages sum to 100.0 within 0.1: in tenths the sum
\* is 999, 1000 or 1001.
C4_SumWithinOneTenth ==
    calcOut.done =>
        /\ PctSum(calcOut.at) \in {999, 1000, 1001}
        /\ PctSum(calcOut.at2) \in {999, 1000, 1001}

\* C4 witness: an input whose three rounded percentages do not sum to 100.0.
C4_Witness == calcOut.done /\ PctSum(calcOut.at) = 1001

\* C5 as stated: for densities d1 < d2 <= 5000 at one population the stored
\* studio and one-bedroom percentages are strictly greater at d2 and the stored
\* two-bedroom percentage strictly smaller.  Neighbouring densities round to the
\* same tenth: violated.
C5_StrictlyMonotone ==
    (calcOut.done /\ calcIn.density2 <= 5000) =>
        /\ calcOut.at2.studio_demand_pct > calcOut.at.studio_demand_pct
        /\ calcOut.at2.one_bed_demand_pct > calcOut.at.one_bed_demand_pct
        /\ calcOut.at2.two_bed_demand_pct < calcOut.at.two_bed_demand_pct

\* C5 amended: for densities d1 < d2 <= 5000 at one population the stored
\* studio and one-bedroom percentages at d2 are not smaller than at d1 and the
\* stored two-bedroom percentage is not greater.
C5_WeaklyMonotone ==
    (calcOut.done /\ calcIn.density2 <= 5000) =>
        /\ calcOut.at2.studio_demand_pct >= calcOut.at.studio_demand_pct
        /\ calcOut.at2.one_bed_demand_pct >= calcOut.at.one_bed_demand_pct
        /\ calcOut.at2.two_bed_demand_pct <= calcOut.at.two_bed_demand_pct

\* C5 witness: two densities below the clamp whose stored percentages differ
\* in all three columns.
C5_Witness ==
    /\ calcOut.done /\ calcIn.density2 <= 5000
    /\ calcOut.at2.studio_demand_pct > calcOut.at.studio_demand_pct
    /\ calcOut.at2.one_bed_demand_pct > calcOut.at.one_bed_demand_pct
    /\ calcOut.at2.two_bed_demand_pct < calcOut.at.two_bed_demand_pct

AntwerpRows == {q \in db.apartment_predictions : q.nis_code = "11002"}

\* C6 as stated: for Antwerp (11002, population 530504, density 2594) the stored
\* percentages are 34.9, 38.5 and 26.6.  45.564 / 130.752 is 34.847..%, stored
\* as 34.8: violated.
C6_AntwerpAsStated ==
    \A q \in AntwerpRows :
        /\ q.studio_demand_pct = 349
        /\ q.one_bed_demand_pct = 385
        /\ q.two_bed_demand_pct = 266

\* C6 amended: for Antwerp the stored percentages are 34.8, 38.5 and 26.6, from
\* total = 130.752.
C6_AntwerpStored ==
    /\ \A m \in db.municipalities :
          m.nis_code = "11002" => m.population = 530504 /\ m.density = 2594
    /\ \A q \in AntwerpRows :
          /\ total(530504, 2594) * 1000 = 130752 * ScoreUnit
          /\ q.studio_demand_pct = 348
          /\ q.one_bed_demand_pct = 385
          /\ q.two_bed_demand_pct = 266

\* C6 witness: Antwerp's prediction has been committed.
C6_Witness == AntwerpRows # {}

\* C7 as stated: at density 0 and population 0 total is 80.  It is
\* 20 + 40 + 40: violated.
C7_TotalIsEighty ==
    (calcOut.done /\ calcIn.population = 0 /\ calcIn.density = 0) =>
        calcOut.total = 80 * ScoreUnit

\* C7 amended: at density 0 and population 0 total is the positive constant
\* 100, so the division by total does not divide by zero.
C7_TotalIsHundred ==
    (calcOut.done /\ calcIn.population = 0 /\ calcIn.density = 0) =>
        calcOut.total = 100 * ScoreUnit /\ calcOut.total > 0

\* C7 witness: the calculator has run on population 0, density 0.
C7_Witness == calcOut.done /\ calcIn.population = 0 /\ calcIn.density = 0

Known(code) == code \in Codes(db.municipalities)
HasPrediction(code) == code \in Codes(db.apartment_predictions)

\* C8: both lookups answer 404 with success:false exactly when no municipalities
\* row has the code; for a municipality without a prediction row they answer
\* 200 with success:true, the municipality endpoint with prediction null, the
\* prediction endpoint with the prediction fields present and null.
C8_NotFoundExactlyWhenUnknown ==
    resp.endpoint \in {"municipality", "prediction"} =>
        /\ resp.status = 404 <=> ~Known(resp.code)
        /\ resp.status = 404 => resp.success = FALSE
        /\ resp.status # 404 => resp.status = 200 /\ resp.success = TRUE
        /\ (Known(resp.code) /\ ~HasPrediction(resp.code)) =>
              /\ resp.status = 200 /\ resp.success = TRUE
              /\ resp.endpoint = "municipality" => resp.data.prediction = {}
              /\ resp.endpoint = "prediction" =>
                    /\ {"studio_demand_pct", "one_bed_demand_pct",
                        "two_bed_demand_pct", "confidence_score", "market_trend"}
                          \subseteq DOMAIN resp.data
                    /\ resp.data.studio_demand_pct = {}
                    /\ resp.data.one_bed_demand_pct = {}
                    /\ resp.data.two_bed_demand_pct = {}
                    /\ resp.data.confidence_score = {}
                    /\ resp.data.market_trend = {}

\* C8 witness: the prediction endpoint has answered for a municipality that
\* exists without a prediction row.
C8_Witness ==
    /\ resp.endpoint = "prediction"
    /\ Known(resp.code) /\ ~HasPrediction(resp.code)
    /\ resp.status = 200

\* The rows the calculate_predictions run in progress has written: one per
\* frame row done, each stamped with a tick of this run.
RunRows(store) ==
    {q \in store.apartment_predictions : q.prediction_date >= clock - (i - 1)}

\* calculate_predictions has written some but not all rows of its run.
MidRun == pc = "calc" /\ 1 < i /\ i <= Len(frame)

\* C9 as stated: a request served while calculate_predictions has written some
\* but not all of its rows sees rows of that run.  The run's inserts sit in one
\* uncommitted transaction, which a request's own connection does not read:
\* violated.
C9_MidRunRequestSeesRunRows ==
    (MidRun /\ resp.endpoint # "none") => RunRows(db) # {}

\* C9 amended: what a request reads while calculate_predictions is in progress
\* holds no row of that run; the run's rows become visible together, at commit.
C9_NoRunRowVisibleBeforeCommit ==
    pc = "calc" => RunRows(db) = {}

\* C9 witness: a stats request served mid-run, with rows of the run written in
\* the batch's transaction and none of them in what the request read.
C9_Witness ==
    /\ MidRun /\ resp.endpoint = "stats"
    /\ RunRows(tx) # {} /\ RunRows(db) = {}
    /\ \A g \in resp.data.by_region : g.avg_studio = {}

\* GET /api/stats answered in the store state st: its three queries all read st.
StatsOf(st) ==
    stats_response(region_stats(st), top_cities(st.municipalities, 10),
                   general_stats(st))

\* C10: the stats response of a store state has by_region counts that sum to
\* total_municipalities and by_region total_pop values that sum to
\* total_population.  With two prediction rows per municipality (C1) the join
\* yields each municipality twice: violated.
C10_StatsCountEachMunicipalityOnce ==
    (resp.endpoint = "stats" /\ resp = StatsOf(db)) =>
        LET R == resp.data.by_region
            g == resp.data.general
        IN /\ SumFn([x \in R |-> x.count], R) = g.total_municipalities
           /\ g.total_population \in
                 {{}, {SumFn([x \in R |-> x.total_pop], R)}}
           /\ (R = {}) <=> (g.total_population = {})
====
